---- MODULE Spec2Model ----
(***************************************************************************)
(* Rhythm (look-ahead step sequencer, src/unnamed/part_006) and Recorder   *)
(* (loop recorder and exporters, src/js/recorder.js).                      *)
(*                                                                         *)
(* Time is kept in integer milliseconds for both clocks the code reads     *)
(* (AudioContext.currentTime, in seconds in the source, and                *)
(* performance.now()).  The tempi the model uses (60, 120, 200) make one   *)
(* step, 60/tempo/4 s, a whole number of milliseconds (250, 125, 75).      *)
(***************************************************************************)
EXTENDS Integers, Sequences, FiniteSets, TLC

(* ---- bounds of the model ---- *)
MaxTime == 2600
MaxRecTime == 5000
MaxLenTime == 2000
MaxCaptures == 2
MaxLog == 1
MaxRequests == 2
MaxAudios == 2
MaxEvents == 3
MaxSamples == 2
MaxNotes == 2

(* ---- program constants ---- *)
SCHEDULE_AHEAD == 100
LOOKAHEAD_MS == 25
MIN_TEMPO == 60
MAX_TEMPO == 200
DEFAULT_TEMPO == 120
DEFAULT_BARS == 4

(* PATTERNS: the catalog, each entry with its step count, its time          *)
(* signature and the bit array of each voice                               *)
PATTERNS ==
  "rock" :>
    [ steps |-> 16, timeSignature |-> "4/4",
      kick   |-> << 1,0,0,0, 0,0,0,0, 1,0,0,0, 0,0,0,0 >>,
      snare  |-> << 0,0,0,0, 1,0,0,0, 0,0,0,0, 1,0,0,0 >>,
      hihat  |-> << 1,0,1,0, 1,0,1,0, 1,0,1,0, 1,0,1,0 >>,
      ohihat |-> << 0,0,0,0, 0,0,0,0, 0,0,0,0, 0,0,0,1 >>,
      clap   |-> << 0,0,0,0, 0,0,0,0, 0,0,0,0, 0,0,0,0 >>,
      rim    |-> << 0,0,0,0, 0,0,0,0, 0,0,0,0, 0,0,0,0 >> ] @@
  "16beat" :>
    [ steps |-> 16, timeSignature |-> "4/4",
      kick   |-> << 1,0,0,0, 0,0,0,0, 1,0,1,0, 0,0,0,0 >>,
      snare  |-> << 0,0,0,0, 1,0,0,0, 0,0,0,0, 1,0,0,0 >>,
      hihat  |-> << 1,1,1,1, 1,1,1,1, 1,1,1,1, 1,1,1,1 >>,
      ohihat |-> << 0,0,0,0, 0,0,0,0, 0,0,0,0, 0,0,0,0 >>,
      clap   |-> << 0,0,0,0, 0,0,0,0, 0,0,0,0, 0,0,0,0 >>,
      rim    |-> << 0,0,0,0, 0,0,1,0, 0,0,0,0, 0,0,1,0 >> ] @@
  "waltz" :>
    [ steps |-> 12, timeSignature |-> "3/4",
      kick   |-> << 1,0,0,0, 0,0,0,0, 0,0,0,0 >>,
      snare  |-> << 0,0,0,0, 1,0,0,0, 1,0,0,0 >>,
      hihat  |-> << 1,0,1,0, 1,0,1,0, 1,0,1,0 >>,
      ohihat |-> << 0,0,0,0, 0,0,0,0, 0,0,0,0 >>,
      clap   |-> << 0,0,0,0, 0,0,0,0, 0,0,0,0 >>,
      rim    |-> << 0,0,0,0, 0,0,0,0, 0,0,0,0 >> ] @@
  "bossa" :>
    [ steps |-> 16, timeSignature |-> "4/4",
      kick   |-> << 1,0,0,0, 0,0,1,0, 0,0,1,0, 0,0,0,0 >>,
      snare  |-> << 0,0,0,0, 0,0,0,0, 0,0,0,0, 0,0,0,0 >>,
      hihat  |-> << 1,0,1,0, 1,0,1,0, 1,0,1,0, 1,0,1,0 >>,
      ohihat |-> << 0,0,0,0, 0,0,0,0, 0,0,0,0, 0,0,0,0 >>,
      clap   |-> << 0,0,0,0, 0,0,0,0, 0,0,0,0, 0,0,0,0 >>,
      rim    |-> << 0,0,0,1, 0,0,0,1, 0,0,0,1, 0,0,0,1 >> ] @@
  "samba" :>
    [ steps |-> 16, timeSignature |-> "4/4",
      kick   |-> << 1,0,0,0, 0,0,1,0, 1,0,0,0, 0,0,1,0 >>,
      snare  |-> << 0,0,0,0, 1,0,0,1, 0,0,0,0, 1,0,0,1 >>,
      hihat  |-> << 1,1,1,1, 1,1,1,1, 1,1,1,1, 1,1,1,1 >>,
      ohihat |-> << 0,0,0,0, 0,0,0,0, 0,0,0,0, 0,0,0,0 >>,
      clap   |-> << 0,0,0,0, 0,0,0,0, 0,0,0,0, 0,0,0,0 >>,
      rim    |-> << 0,1,0,1, 0,0,0,1, 0,1,0,1, 0,0,0,1 >> ] @@
  "swing" :>
    [ steps |-> 16, timeSignature |-> "4/4",
      kick   |-> << 1,0,0,0, 0,0,0,0, 1,0,0,0, 0,0,0,0 >>,
      snare  |-> << 0,0,0,0, 1,0,0,0, 0,0,0,0, 1,0,0,0 >>,
      hihat  |-> << 1,0,0,1, 0,0,1,0, 0,1,0,0, 1,0,0,1 >>,
      ohihat |-> << 0,0,0,0, 0,0,0,0, 0,0,0,0, 0,0,0,0 >>,
      clap   |-> << 0,0,0,0, 0,0,0,0, 0,0,0,0, 0,0,0,0 >>,
      rim    |-> << 0,0,1,0, 0,0,0,0, 0,0,1,0, 0,0,0,0 >> ] @@
  "march" :>
    [ steps |-> 16, timeSignature |-> "4/4",
      kick   |-> << 1,0,0,0, 1,0,0,0, 1,0,0,0, 1,0,0,0 >>,
      snare  |-> << 0,0,1,0, 0,0,1,0, 0,0,1,0, 0,0,1,0 >>,
      hihat  |-> << 1,0,1,0, 1,0,1,0, 1,0,1,0, 1,0,1,0 >>,
      ohihat |-> << 0,0,0,0, 0,0,0,0, 0,0,0,0, 0,0,0,0 >>,
      clap   |-> << 0,0,0,0, 0,0,0,0, 0,0,0,0, 0,0,0,0 >>,
      rim    |-> << 0,0,0,0, 0,0,0,0, 0,0,0,0, 0,0,0,1 >> ] @@
  "disco" :>
    [ steps |-> 16, timeSignature |-> "4/4",
      kick   |-> << 1,0,0,0, 1,0,0,0, 1,0,0,0, 1,0,0,0 >>,
      snare  |-> << 0,0,0,0, 1,0,0,0, 0,0,0,0, 1,0,0,0 >>,
      hihat  |-> << 1,1,1,1, 1,1,1,1, 1,1,1,1, 1,1,1,1 >>,
      ohihat |-> << 0,0,0,1, 0,0,0,1, 0,0,0,1, 0,0,0,1 >>,
      clap   |-> << 0,0,0,0, 1,0,0,0, 0,0,0,0, 1,0,0,0 >>,
      rim    |-> << 0,0,0,0, 0,0,0,0, 0,0,0,0, 0,0,0,0 >> ]

Voices == {"kick", "snare", "hihat", "ohihat", "clap", "rim"}

PatternNames == DOMAIN PATTERNS

(* arguments the callers pass *)
PatternInputs == {"rock", "waltz", "polka"}
BpmInputs == {40, 120, 240}
(* the values of the loop-length control: setLoopLength gets strings *)
BarInputs == {"free", "1"}
(* parseInt on those values *)
parseInt(str) == CASE str = "1" -> 1 [] str = "2" -> 2 [] str = "4" -> 4
(* the data of the two logEvent calls of the page: a string of the strip  *)
(* (a note number and a velocity) and a chord pad (the array padMidi)      *)
EventInputs ==
  { [type |-> "note", channel |-> 1, midi |-> <<60>>, velocity |-> <<100>>],
    [type |-> "chord", channel |-> 2, midi |-> <<48, 52, 55>>,
     velocity |-> <<>>] }
(* the data of a logEvent call that names no note *)
NoNoteInputs ==
  { [type |-> "strum", channel |-> 1, midi |-> <<>>, velocity |-> <<>>] }
(* the times, from the start of a recording, at which events are logged *)
EventTimes == {0, 100, 900, 1500}
(* the times between two runs of the interval timer that the model explores: *)
(* setInterval(scheduler, LOOKAHEAD_MS) runs late by whole intervals         *)
Delays == {10 * LOOKAHEAD_MS, 40 * LOOKAHEAD_MS}
ThrottledDelay == 40 * LOOKAHEAD_MS

Min(a, b) == IF a < b THEN a ELSE b
Max(a, b) == IF a > b THEN a ELSE b

VARIABLES
  (* Audio *)
  audioReady,      \* Audio.init() has run: ctx and mediaStreamDest exist
  now,             \* the clock, ms
  (* Rhythm *)
  playing, tempo, currentStep, currentPattern, nextStepTime, metronomeOn,
  countInCallback, \* Null, or the closure startCountIn built
  countInStep,
  cbQueue,         \* callbacks handed to setTimeout(cb, 0), not yet run
  requests,        \* history: count-in requests made, invoked and replaced
  dispatched,      \* history: the steps dispatched since the last start()
  (* Recorder *)
  state, mediaRecorder, recorders, audioBlob, audioElement,
  loopsPlaying, eventLog, recordStartTime, loopLengthBars, loopDurationMs,
  layers, timers,
  download,        \* <<>>, or the file downloadBlob() last offered
  decoded,         \* what ctx.decodeAudioData resolves to for the blob of
                   \* the first layer: <<buffer>>, or <<>> when it rejects
  history          \* history: the count-ins stopRecording() cancelled, and
                   \* whether clear() ran with no recording started since

schedulerVars == <<playing, tempo, currentStep, currentPattern, nextStepTime,
                   metronomeOn, countInCallback, countInStep, cbQueue,
                   requests>>
rhythmVars == <<schedulerVars, dispatched>>
recorderVars == <<state, mediaRecorder, recorders, audioBlob,
                  audioElement, loopsPlaying, eventLog, recordStartTime,
                  loopLengthBars, loopDurationMs, layers, timers, download,
                  decoded,
                  history>>
vars == <<audioReady, now, rhythmVars, recorderVars>>

(* ======================= Rhythm ======================================= *)

(* getStepDuration: one sixteenth note, 60 / tempo / 4 seconds, in ms *)
getStepDuration(bpm) == 15000 \div bpm

getPatternSteps(name) == PATTERNS[name].steps

(* (four beats whatever the time signature) *)
getBeatsPerBarFour(name) == 4

getBeatsPerBar(name) ==
  IF PATTERNS[name].timeSignature = "3/4" THEN 3 ELSE 4

(* getBarDuration: getBeatsPerBar() * (60 / tempo) seconds, in ms *)
getBarDuration(name, bpm) == getBeatsPerBar(name) * (60000 \div bpm)

(* The two durations in seconds, as the quotients they are: the ms above    *)
(* are whole only at the tempi that divide 15000.                           *)
(* getStepDuration: 60 / tempo / 4 *)
getStepDurationSeconds(bpm) == [num |-> 60, den |-> bpm * 4]
(* getBarDuration: getBeatsPerBar() * (60 / tempo) *)
getBarDurationSeconds(name, bpm) ==
  [num |-> getBeatsPerBar(name) * 60, den |-> bpm]

(* setTempo's clamp: Math.max(60, Math.min(200, bpm)) *)
ClampTempo(bpm) == Max(MIN_TEMPO, Min(MAX_TEMPO, bpm))

(* startCountIn: countInStep = wasPlaying ? 0 : 1 *)
CountInSkipAlways(wasPlaying) == 1
CountInSkip(wasPlaying) == IF wasPlaying THEN 0 ELSE 1

(* The metronome part of scheduleStep(step, time): the call of            *)
(* Audio.playMetronomeClick(time, accent) it makes, <<>> when it makes     *)
(* none.  stepsPerBeat is 4 for every pattern.                             *)
(* (a metronome that accents every beat) *)
metronomeClickAllAccented(step, time, metro) ==
  IF metro /\ step % 4 = 0
    THEN << [time |-> time, accent |-> TRUE] >>
    ELSE <<>>
metronomeClick(step, time, metro) ==
  IF metro /\ step % 4 = 0
    THEN << [time |-> time, accent |-> (step \div 4 = 0)] >>
    ELSE <<>>

(* The count-in part of scheduleStep(step, time), on the loop state s:      *)
(* s.cb is countInCallback (<<>> is null, <<c>> the closure c), s.cis is    *)
(* countInStep, s.q the callbacks handed to setTimeout(cb, 0).  The fields  *)
(* steps and zeros of a closure count the steps, and the step-0s,           *)
(* dispatched since its request (history, for the count-in claims).         *)
(* (a scheduleStep that skips every bar boundary) *)
scheduleStepSkipping(s, step) ==
  IF s.cb # <<>> /\ step = 0
    THEN [s EXCEPT !.cb[1].steps = @ + 1, !.cb[1].zeros = @ + 1]
    ELSE IF s.cb # <<>> THEN [s EXCEPT !.cb[1].steps = @ + 1] ELSE s
scheduleStep(s, step) ==
  IF s.cb # <<>> /\ step = 0
    THEN IF s.cis > 0
           THEN [s EXCEPT !.cis = s.cis - 1,
                          !.cb[1].steps = @ + 1, !.cb[1].zeros = @ + 1]
           ELSE [s EXCEPT !.q = Append(s.q, [s.cb[1] EXCEPT !.zeros = @ + 1]),
                          !.cb = <<>>, !.cis = -1]
    ELSE IF s.cb # <<>> THEN [s EXCEPT !.cb[1].steps = @ + 1] ELSE s

(* scheduler(): while (nextStepTime < ctx.currentTime + SCHEDULE_AHEAD);    *)
(* s.out lists the calls scheduleStep(currentStep, nextStepTime) it made,   *)
(* each with the metronome click it scheduled; s.metro is metronomeOn.      *)
(* (a scheduler that sets a late nextStepTime to the clock instead)         *)
RECURSIVE schedulerLoopResync(_, _, _, _)
schedulerLoopResync(s, t, bpm, name) ==
  IF s.nst < t + SCHEDULE_AHEAD
    THEN schedulerLoopResync(
           [scheduleStep(s, s.step) EXCEPT
              !.out = Append(s.out,
                             [step |-> s.step, time |-> s.nst,
                              click |-> metronomeClick(s.step, s.nst,
                                                       s.metro)]),
              !.nst = Max(s.nst + getStepDuration(bpm), t),
              !.step = (s.step + 1) % getPatternSteps(name)],
           t, bpm, name)
    ELSE s
(* (a scheduler that dispatches at most one step in a pass) *)
schedulerLoopOnce(s, t, bpm, name) ==
  IF s.nst < t + SCHEDULE_AHEAD
    THEN [scheduleStep(s, s.step) EXCEPT
            !.out = Append(s.out,
                           [step |-> s.step, time |-> s.nst,
                            click |-> metronomeClick(s.step, s.nst,
                                                     s.metro)]),
            !.nst = s.nst + getStepDuration(bpm),
            !.step = (s.step + 1) % getPatternSteps(name)]
    ELSE s
RECURSIVE schedulerLoop(_, _, _, _)
schedulerLoop(s, t, bpm, name) ==
  IF s.nst < t + SCHEDULE_AHEAD
    THEN schedulerLoop(
           [scheduleStep(s, s.step) EXCEPT
              !.out = Append(s.out,
                             [step |-> s.step, time |-> s.nst,
                              click |-> metronomeClick(s.step, s.nst,
                                                       s.metro)]),
              !.nst = s.nst + getStepDuration(bpm),
              !.step = (s.step + 1) % getPatternSteps(name)],
           t, bpm, name)
    ELSE s

(* The history dispatched is kept from a start() for as long as the       *)
(* scheduler runs with the tempo and pattern of that start(): at is the    *)
(* time of the start(), k the number of steps dispatched since, pass the   *)
(* steps of the latest scheduler pass.  Otherwise it is Untracked, with    *)
(* wrapped set from a setPattern that reduced the step index until the     *)
(* next scheduler pass.  In both cases last holds the scheduled time of   *)
(* the step dispatched latest for as long as the clock has not passed it,  *)
(* and <<>> otherwise.                                                     *)
StillAhead(last, t) == IF last # <<>> /\ last[1] >= t THEN last ELSE <<>>

Untracked ==
  [at |-> 0, k |-> 0, pass |-> <<>>, steady |-> FALSE, wrapped |-> FALSE,
   last |-> <<>>]

(* (a start that does not ask for the audio clock) *)
startWithoutClock ==
  IF playing
    THEN UNCHANGED <<playing, currentStep, nextStepTime, dispatched>>
    ELSE /\ playing' = TRUE
         /\ currentStep' = 0
         /\ nextStepTime' = now
         /\ dispatched' = [at |-> now, k |-> 0, pass |-> <<>>, steady |-> TRUE,
                            wrapped |-> FALSE, last |-> dispatched.last]

(* start() *)
start ==
  IF playing \/ ~audioReady
    THEN UNCHANGED <<playing, currentStep, nextStepTime, dispatched>>
    ELSE /\ playing' = TRUE
         /\ currentStep' = 0
         /\ nextStepTime' = now
         /\ dispatched' = [at |-> now, k |-> 0, pass |-> <<>>, steady |-> TRUE,
                            wrapped |-> FALSE, last |-> dispatched.last]

(* (a stop that leaves the step index where it is) *)
stopKeepingStep ==
  IF ~playing
    THEN UNCHANGED <<playing, currentStep, nextStepTime, dispatched>>
    ELSE /\ playing' = FALSE
         /\ dispatched' = [Untracked EXCEPT !.last = dispatched.last]
         /\ UNCHANGED <<currentStep, nextStepTime>>

(* stop() *)
stop ==
  IF ~playing
    THEN UNCHANGED <<playing, currentStep, nextStepTime, dispatched>>
    ELSE /\ playing' = FALSE
         /\ currentStep' = 0
         /\ dispatched' = [Untracked EXCEPT !.last = dispatched.last]
         /\ UNCHANGED nextStepTime

(* toggle() *)
toggle == IF playing THEN stop ELSE start

(* startCountIn(beatsCount, callback): the recorder is the only caller, and *)
(* callback is always its () => actuallyStartRecording(stream).             *)
startCountIn ==
  /\ metronomeOn' = TRUE
  /\ start
  /\ countInStep' = CountInSkip(playing)
  /\ countInCallback' =
       << [wasMetronomeOn |-> metronomeOn, wasPlaying |-> playing,
           id |-> requests.issued + 1, steps |-> 0, zeros |-> 0] >>
  /\ requests' =
       [requests EXCEPT
          !.issued = @ + 1,
          !.replaced = IF countInCallback # <<>>
                         THEN @ \cup {countInCallback[1].id} ELSE @]
  /\ UNCHANGED <<tempo, currentPattern, cbQueue>>

(* the closure of startCountIn: if (!wasMetronomeOn) metronomeOn = false *)
closureMetronome(c) == IF c.wasMetronomeOn THEN metronomeOn ELSE FALSE

(* ---- Rhythm's public calls, as the page's controls make them ---- *)

RhythmStart ==
  /\ start
  /\ UNCHANGED <<audioReady, now, tempo, currentPattern, metronomeOn,
                 countInCallback, countInStep, cbQueue, requests, recorderVars>>

RhythmStop ==
  /\ stop
  /\ UNCHANGED <<audioReady, now, tempo, currentPattern, metronomeOn,
                 countInCallback, countInStep, cbQueue, requests, recorderVars>>

RhythmToggle ==
  /\ toggle
  /\ UNCHANGED <<audioReady, now, tempo, currentPattern, metronomeOn,
                 countInCallback, countInStep, cbQueue, requests, recorderVars>>

(* setTempo(bpm) *)
setTempo(bpm) ==
  /\ tempo' = ClampTempo(bpm)
  /\ dispatched' = IF ClampTempo(bpm) = tempo
                      THEN dispatched
                      ELSE [Untracked EXCEPT !.last = dispatched.last]
  /\ UNCHANGED <<audioReady, now, playing, currentStep, currentPattern,
                 nextStepTime, metronomeOn, countInCallback, countInStep,
                 cbQueue, requests, recorderVars>>

SetTempo == \E bpm \in BpmInputs : setTempo(bpm)

(* (a setPattern that leaves the step index as it is) *)
SetPatternKeepingStep ==
  \E name \in PatternInputs :
    /\ dispatched' =
         IF name \in PatternNames /\ name # currentPattern
           THEN [Untracked EXCEPT
                   !.last = dispatched.last,
                   !.wrapped = playing /\ currentStep >= getPatternSteps(name)]
           ELSE dispatched
    /\ IF name \in PatternNames
         THEN /\ currentPattern' = name
              /\ currentStep' = currentStep
         ELSE UNCHANGED <<currentPattern, currentStep>>
    /\ UNCHANGED <<audioReady, now, playing, tempo, nextStepTime, metronomeOn,
                   countInCallback, countInStep, cbQueue, requests,
                   recorderVars>>

(* setPattern(name) *)
setPattern(name) ==
  /\ dispatched' =
       IF name \in PatternNames /\ name # currentPattern
         THEN [Untracked EXCEPT
                 !.last = dispatched.last,
                 !.wrapped = playing /\ currentStep >= getPatternSteps(name)]
         ELSE dispatched
  /\ IF name \in PatternNames
       THEN /\ currentPattern' = name
            /\ currentStep' = IF playing
                                THEN currentStep % getPatternSteps(name)
                                ELSE currentStep
       ELSE UNCHANGED <<currentPattern, currentStep>>
  /\ UNCHANGED <<audioReady, now, playing, tempo, nextStepTime, metronomeOn,
                 countInCallback, countInStep, cbQueue, requests,
                 recorderVars>>

SetPattern == \E name \in PatternInputs : setPattern(name)

ToggleMetronome ==
  /\ metronomeOn' = ~metronomeOn
  /\ UNCHANGED <<audioReady, now, playing, tempo, currentStep, currentPattern,
                 nextStepTime, countInCallback, countInStep, cbQueue, requests,
                 dispatched, recorderVars>>

(* No timer is due before time t: a pending setTimeout runs when it is due. *)
NothingDueBefore(t) ==
  /\ cbQueue = <<>>
  /\ \A tm \in timers : t <= tm.due

(* The setInterval(scheduler, LOOKAHEAD_MS) callback runs d ms after the    *)
(* last timer event and reads ctx.currentTime once (the clock stops at      *)
(* limit, the bound of the model).                                          *)
TickAfter(d, limit) ==
  /\ playing
  /\ now + d <= limit
  /\ NothingDueBefore(now + d)
  /\ now' = now + d
  /\ LET s == schedulerLoop(
                [nst |-> nextStepTime, step |-> currentStep,
                 cb |-> countInCallback, cis |-> countInStep, q |-> cbQueue,
                 metro |-> metronomeOn, out |-> <<>>],
                now + d, tempo, currentPattern)
     IN /\ nextStepTime' = s.nst
        /\ currentStep' = s.step
        /\ countInCallback' = s.cb
        /\ countInStep' = s.cis
        /\ cbQueue' = s.q
        /\ dispatched' =
             LET last == StillAhead(
                           IF s.out = <<>> THEN dispatched.last
                                           ELSE << s.out[Len(s.out)].time >>,
                           now + d)
             IN IF dispatched.steady
                  THEN [dispatched EXCEPT !.k = @ + Len(s.out),
                                          !.pass = s.out, !.last = last]
                  ELSE [Untracked EXCEPT !.last = last]
  /\ UNCHANGED <<audioReady, playing, tempo, currentPattern, metronomeOn,
                 requests, recorderVars>>

Tick == \E d \in Delays : TickAfter(d, MaxTime)

(* the same callback in a page whose timers are throttled to one a second *)
ThrottledTick == TickAfter(ThrottledDelay, MaxRecTime)

(* the throttled callback, with the clock stopping at MaxLenTime *)
LengthTick == TickAfter(ThrottledDelay, MaxLenTime)

(* Time passes while no scheduler timer runs. *)
Advance ==
  \E d \in Delays :
    /\ ~playing
    /\ now + d <= MaxTime
    /\ NothingDueBefore(now + d)
    /\ now' = now + d
    /\ dispatched' = [dispatched EXCEPT !.last = StillAhead(@, now + d)]
    /\ UNCHANGED <<audioReady, schedulerVars, recorderVars>>

(* Audio.init(): the first user gesture creates ctx and mediaStreamDest *)
AudioInit ==
  /\ ~audioReady
  /\ audioReady' = TRUE
  /\ UNCHANGED <<now, rhythmVars, recorderVars>>

(* ======================= Recorder ===================================== *)

(* Audio.getMediaStream(): mediaStreamDest ? mediaStreamDest.stream : null *)
getMediaStream == audioReady

(* new MediaRecorder(stream, ...) with its onstop handler; start(100).     *)
(* History: log, the events logEvent has appended since, kept while the    *)
(* capture can still complete (it is the one mediaRecorder refers to, or   *)
(* its stop is pending) and dropped at its completion; commits, the times  *)
(* its onstop has run; at, the time of its start, and was, the value of    *)
(* loopDurationMs the start of a base recording found, both kept as long   *)
(* as log; due, the time of the auto-stop deadline a base recording armed  *)
(* at its start (0 when it armed none), kept as long as log.               *)
NewRecorder(handler) ==
  [onstop |-> handler, mrState |-> "recording", stopping |-> FALSE,
   log |-> <<>>, commits |-> 0, at |-> now,
   was |-> IF handler = "onRecordingStop" THEN loopDurationMs ELSE 0,
   due |-> 0]

(* the captures with the event e added to the log of those that can still *)
(* complete                                                                 *)
Logged(e) ==
  [id \in 1..Len(recorders) |->
     IF recorders[id].commits = 0 /\ (mediaRecorder = id \/ recorders[id].stopping)
       THEN [recorders[id] EXCEPT !.log = Append(@, e)]
       ELSE recorders[id]]

(* Room for one more MediaRecorder besides those the pending count-in       *)
(* callbacks will create (MaxCaptures bounds the recorders ever created).   *)
RoomForCapture(pending) == Len(recorders) + pending + 1 <= MaxCaptures

(* (a stopRecording that leaves the recording state at once) *)
stopRecordingAtOnce ==
  IF state = "counting-in" \/ state = "recording" \/ state = "overdub"
    THEN [state |-> "idle", recorders |-> recorders]
    ELSE [state |-> state, recorders |-> recorders]

(* stopRecording(): the new values of state and recorders *)
stopRecording ==
  IF state = "counting-in"
    THEN [state |-> "idle", recorders |-> recorders]
    ELSE IF state # "recording" /\ state # "overdub"
      THEN [state |-> state, recorders |-> recorders]
      ELSE IF mediaRecorder # 0 /\ recorders[mediaRecorder].mrState # "inactive"
        THEN [state |-> state,
              recorders |-> [recorders EXCEPT
                               ![mediaRecorder].mrState = "inactive",
                               ![mediaRecorder].stopping = TRUE]]
        ELSE [state |-> state, recorders |-> recorders]

(* (a playLoop without the test for layers) *)
playLoopAlways(r) ==
  [state |-> "playing", audioElement |-> TRUE,
   loopsPlaying |-> r.loopsPlaying + Len(layers)]

(* playLoop(), on r = [state, audioElement, loopsPlaying]: one looping      *)
(* Audio per layer; audioElement keeps the first one only if it was null.   *)
playLoop(r) ==
  IF Len(layers) = 0
    THEN r
    ELSE [state |-> "playing", audioElement |-> TRUE,
          loopsPlaying |-> r.loopsPlaying + Len(layers)]

(* stopPlayback(), on r = [state, audioElement, loopsPlaying] *)
stopPlayback(r) ==
  [state |-> "idle", audioElement |-> FALSE,
   loopsPlaying |-> IF r.audioElement THEN r.loopsPlaying - 1
                                       ELSE r.loopsPlaying]

playbackNow ==
  [state |-> state, audioElement |-> audioElement,
   loopsPlaying |-> loopsPlaying]

(* the count-in requests not yet called back *)
outstanding ==
  {countInCallback[i].id : i \in 1..Len(countInCallback)}
    \cup {cbQueue[i].id : i \in 1..Len(cbQueue)}

(* (a startRecording that does not look for the capture stream) *)
startRecordingWithoutStream ==
  IF state = "recording" \/ state = "counting-in"
    THEN UNCHANGED <<rhythmVars, recorderVars>>
    ELSE /\ state' = "counting-in"
         /\ startCountIn
         /\ history' = [history EXCEPT !.cleared = FALSE]
         /\ UNCHANGED <<decoded, download, mediaRecorder, recorders, audioBlob,
                        audioElement, loopsPlaying, eventLog, recordStartTime,
                        loopLengthBars, loopDurationMs, layers, timers>>

(* startRecording() *)
startRecording ==
  IF state = "recording" \/ state = "counting-in" \/ ~getMediaStream
    THEN UNCHANGED <<rhythmVars, recorderVars>>
    ELSE /\ state' = "counting-in"
         /\ startCountIn
         /\ history' = [history EXCEPT !.cleared = FALSE]
         /\ UNCHANGED <<decoded, download, mediaRecorder, recorders, audioBlob,
                        audioElement, loopsPlaying, eventLog, recordStartTime,
                        loopLengthBars, loopDurationMs, layers, timers>>

StartRecording ==
  /\ requests.issued < MaxRequests
  /\ RoomForCapture(Len(cbQueue))
  /\ startRecording
  /\ UNCHANGED <<audioReady, now>>

(* (a start of the recording that keeps the duration setLoopLength left) *)
CountInFireStale ==
  /\ cbQueue # <<>>
  /\ LET c == Head(cbQueue)
         dur == loopDurationMs
     IN /\ cbQueue' = Tail(cbQueue)
        /\ metronomeOn' = closureMetronome(c)
        /\ requests' = [requests EXCEPT !.invoked = Append(@, c.id)]
        /\ state' = "recording"
        /\ eventLog' = <<>>
        /\ recordStartTime' = now
        /\ loopDurationMs' = dur
        /\ recorders' =
             Append(recorders,
                    [NewRecorder("onRecordingStop") EXCEPT
                       !.due = IF dur > 0 THEN now + dur ELSE 0])
        /\ mediaRecorder' = Len(recorders) + 1
        /\ timers' = IF dur > 0
                       THEN timers \cup {[kind |-> "recording", due |-> now + dur]}
                       ELSE timers
  /\ UNCHANGED <<decoded, download, audioReady, now, playing, tempo, currentStep,
                 currentPattern, nextStepTime, countInCallback, countInStep,
                 dispatched, audioBlob,
                 audioElement, loopsPlaying, loopLengthBars, layers, history>>

(* The count-in closure runs: () => { if (!wasMetronomeOn) metronomeOn =   *)
(* false; callback(); } and callback is actuallyStartRecording(stream).    *)
CountInFire ==
  /\ cbQueue # <<>>
  /\ LET c == Head(cbQueue)
         dur == IF loopLengthBars > 0
                  THEN loopLengthBars * getBarDuration(currentPattern, tempo)
                  ELSE loopDurationMs
     IN /\ cbQueue' = Tail(cbQueue)
        /\ metronomeOn' = closureMetronome(c)
        /\ requests' = [requests EXCEPT !.invoked = Append(@, c.id)]
        /\ state' = "recording"
        /\ eventLog' = <<>>
        /\ recordStartTime' = now
        /\ loopDurationMs' = dur
        /\ recorders' =
             Append(recorders,
                    [NewRecorder("onRecordingStop") EXCEPT
                       !.due = IF dur > 0 THEN now + dur ELSE 0])
        /\ mediaRecorder' = Len(recorders) + 1
        /\ timers' = IF dur > 0
                       THEN timers \cup {[kind |-> "recording", due |-> now + dur]}
                       ELSE timers
  /\ UNCHANGED <<decoded, download, audioReady, now, playing, tempo, currentStep,
                 currentPattern, nextStepTime, countInCallback, countInStep,
                 dispatched, audioBlob,
                 audioElement, loopsPlaying, loopLengthBars, layers, history>>

(* startOverdub() *)
StartOverdub ==
  IF audioBlob = <<>> /\ Len(layers) = 0
    THEN StartRecording
    ELSE /\ eventLog' = <<>>
         /\ recordStartTime' = now
         /\ history' = [history EXCEPT !.cleared = FALSE]
         /\ IF ~getMediaStream
              THEN /\ state' = "overdub"
                   /\ UNCHANGED <<mediaRecorder, recorders, audioElement,
                                  loopsPlaying, timers>>
              ELSE /\ RoomForCapture(Len(countInCallback) + Len(cbQueue))
                   /\ loopsPlaying + Len(layers) <= MaxAudios
                   /\ recorders' = Append(recorders, NewRecorder("onOverdubStop"))
                   /\ mediaRecorder' = Len(recorders) + 1
                   /\ LET r == playLoop([playbackNow EXCEPT !.state = "overdub"])
                      IN /\ state' = r.state
                         /\ audioElement' = r.audioElement
                         /\ loopsPlaying' = r.loopsPlaying
                   /\ timers' = IF loopDurationMs > 0
                                  THEN timers \cup {[kind |-> "overdub",
                                                     due |-> now + loopDurationMs]}
                                  ELSE timers
         /\ UNCHANGED <<decoded, download, audioReady, now, rhythmVars, audioBlob, loopLengthBars,
                        loopDurationMs, layers>>

StopRecording ==
  /\ state' = stopRecording.state
  /\ recorders' = stopRecording.recorders
  /\ history' = IF state = "counting-in"
                  THEN [history EXCEPT !.cancelled = @ \cup outstanding]
                  ELSE history
  /\ UNCHANGED <<decoded, download, audioReady, now, rhythmVars, mediaRecorder, audioBlob,
                 audioElement, loopsPlaying, eventLog, recordStartTime,
                 loopLengthBars, loopDurationMs, layers, timers>>

(* The setTimeout armed by actuallyStartRecording / startOverdub runs when   *)
(* it is due (the clock moves to its due time):                             *)
(* if (state === 'recording') stopRecording(), resp. 'overdub'.             *)
DeadlineFire ==
  \E tm \in timers :
    /\ cbQueue = <<>>
    /\ \A other \in timers : tm.due <= other.due
    /\ tm.due <= MaxRecTime
    /\ now' = Max(now, tm.due)
    /\ dispatched' = [dispatched EXCEPT !.last = StillAhead(@, Max(now, tm.due))]
    /\ timers' = timers \ {tm}
    /\ IF state = tm.kind
         THEN /\ state' = stopRecording.state
              /\ recorders' = stopRecording.recorders
         ELSE UNCHANGED <<state, recorders>>
    /\ UNCHANGED <<decoded, download, audioReady, schedulerVars, mediaRecorder, audioBlob,
                   audioElement, loopsPlaying, eventLog, recordStartTime,
                   loopLengthBars, loopDurationMs, layers, history>>

(* onRecordingStop(), run as the onstop of capture id.  A Blob is named by  *)
(* the capture whose completion built it from audioChunks.                  *)
onRecordingStop(id) ==
  /\ loopDurationMs' = IF loopDurationMs = 0 THEN now - recordStartTime
                                             ELSE loopDurationMs
  /\ audioBlob' = <<id>>
  /\ layers' = << [blob |-> id, events |-> eventLog] >>
  /\ state' = "idle"
  /\ UNCHANGED <<audioElement, loopsPlaying>>

(* onOverdubStop(), run as the onstop of capture id *)
onOverdubStop(id) ==
  /\ layers' = Append(layers, [blob |-> id, events |-> eventLog])
  /\ audioBlob' = <<id>>
  /\ state' = "idle"
  /\ audioElement' = FALSE
  /\ loopsPlaying' = IF audioElement THEN loopsPlaying - 1 ELSE loopsPlaying
  /\ UNCHANGED loopDurationMs

(* The capture collaborator signals completion: the 'stop' event that       *)
(* mediaRecorder.stop() queued is delivered to the recorder's onstop.       *)
CaptureStopped ==
  \E id \in 1..Len(recorders) :
    /\ recorders[id].stopping
    /\ recorders' = [recorders EXCEPT ![id].stopping = FALSE,
                                      ![id].log = <<>>,
                                      ![id].at = 0,
                                      ![id].was = 0,
                                      ![id].due = 0,
                                      ![id].commits = @ + 1]
    /\ IF recorders[id].onstop = "onRecordingStop"
         THEN onRecordingStop(id)
         ELSE onOverdubStop(id)
    /\ UNCHANGED <<decoded, download, audioReady, now, rhythmVars, mediaRecorder, eventLog,
                   recordStartTime, loopLengthBars, timers, history>>

(* the Event logEvent pushes: { time, type, ...data }.  A field holds <<>> *)
(* when the object has no such property, <<v>> for a number v, and the     *)
(* array itself for the midi of a chord.                                   *)
LoggedEvent(time, data) ==
  [time |-> time, type |-> data.type, channel |-> data.channel,
   midi |-> data.midi, velocity |-> data.velocity]

(* (a logEvent that appends in every state) *)
LogEventAlways ==
  \E data \in EventInputs :
    /\ Len(eventLog) < MaxLog
    /\ eventLog' = Append(eventLog, LoggedEvent(now - recordStartTime, data))
    /\ recorders' = Logged(LoggedEvent(now - recordStartTime, data))
    /\ UNCHANGED <<decoded, download, audioReady, now, rhythmVars, state, mediaRecorder,
                   audioBlob, audioElement, loopsPlaying,
                   recordStartTime, loopLengthBars, loopDurationMs, layers,
                   timers, history>>

(* logEvent(type, data) *)
LogEvent ==
  \E data \in EventInputs :
    /\ IF state # "recording" /\ state # "overdub"
         THEN UNCHANGED <<eventLog, recorders>>
         ELSE LET e == LoggedEvent(now - recordStartTime, data)
              IN /\ Len(eventLog) < MaxLog
                 /\ eventLog' = Append(eventLog, e)
                 /\ recorders' = Logged(e)
    /\ UNCHANGED <<decoded, download, audioReady, now, rhythmVars, state, mediaRecorder,
                   audioBlob, audioElement, loopsPlaying,
                   recordStartTime, loopLengthBars, loopDurationMs, layers,
                   timers, history>>

PlayLoop ==
  /\ loopsPlaying + Len(layers) <= MaxAudios
  /\ LET r == playLoop(playbackNow)
     IN /\ state' = r.state
        /\ audioElement' = r.audioElement
        /\ loopsPlaying' = r.loopsPlaying
  /\ UNCHANGED <<decoded, download, audioReady, now, rhythmVars, mediaRecorder, recorders,
                 audioBlob, eventLog, recordStartTime,
                 loopLengthBars, loopDurationMs, layers, timers, history>>

StopPlayback ==
  /\ LET r == stopPlayback(playbackNow)
     IN /\ state' = r.state
        /\ audioElement' = r.audioElement
        /\ loopsPlaying' = r.loopsPlaying
  /\ UNCHANGED <<decoded, download, audioReady, now, rhythmVars, mediaRecorder, recorders,
                 audioBlob, eventLog, recordStartTime,
                 loopLengthBars, loopDurationMs, layers, timers, history>>

(* clear() *)
Clear ==
  /\ LET r == stopPlayback(playbackNow)
     IN /\ audioElement' = r.audioElement
        /\ loopsPlaying' = r.loopsPlaying
  /\ layers' = <<>>
  /\ eventLog' = <<>>
  /\ audioBlob' = <<>>
  /\ loopDurationMs' = 0
  /\ state' = "idle"
  /\ history' = [history EXCEPT !.cleared = TRUE]
  /\ UNCHANGED <<decoded, download, audioReady, now, rhythmVars, mediaRecorder, recorders,
                 recordStartTime, loopLengthBars, timers>>

(* setLoopLength(bars) *)
SetLoopLength ==
  \E bars \in BarInputs :
    /\ IF bars = "free"
         THEN /\ loopLengthBars' = 0
              /\ loopDurationMs' = 0
         ELSE /\ loopLengthBars' = parseInt(bars)
              /\ loopDurationMs' =
                   parseInt(bars) * getBarDuration(currentPattern, tempo)
    /\ UNCHANGED <<decoded, download, audioReady, now, rhythmVars, state, mediaRecorder, recorders,
                   audioBlob, audioElement, loopsPlaying, eventLog,
                   recordStartTime, layers, timers, history>>

(* ======================= MIDI export ================================== *)

ticksPerBeat == 480

(* Math.round(n / d) for d > 0: the nearest integer, a half rounding up *)
Round(n, d) == (2 * n + d) \div (2 * d)

(* (the groups of seven bits in the order the loop meets them, least        *)
(* significant first)                                                       *)
RECURSIVE writeVarLenLeastFirst(_)
writeVarLenLeastFirst(value) ==
  IF value \div 128 > 0
    THEN <<(value % 128) + 128>> \o writeVarLenLeastFirst(value \div 128)
    ELSE <<value % 128>>

(* writeVarLen(value): seven bits a byte, most significant group first;     *)
(* value & 0x7F is value % 128 and value >>= 7 is value \div 128 for the    *)
(* non-negative values below 2^31 that reach it.                            *)
RECURSIVE writeVarLenLoop(_, _)
writeVarLenLoop(bytes, value) ==
  IF value > 0
    THEN writeVarLenLoop(<<(value % 128) + 128>> \o bytes, value \div 128)
    ELSE bytes
writeVarLen(value) == writeVarLenLoop(<<value % 128>>, value \div 128)

(* (no sort: the events as they come) *)
asAppended(events) == events

(* [...events].sort((a, b) => a.time - b.time): a stable sort by time *)
RECURSIVE insertByTime(_, _)
insertByTime(sorted, evt) ==
  IF sorted = <<>> \/ Head(sorted).time > evt.time
    THEN <<evt>> \o sorted
    ELSE <<Head(sorted)>> \o insertByTime(Tail(sorted), evt)
RECURSIVE sortByTime(_)
sortByTime(events) ==
  IF events = <<>>
    THEN <<>>
    ELSE insertByTime(sortByTime(SubSeq(events, 1, Len(events) - 1)),
                      events[Len(events)])

(* evt.midi === undefined *)
midiUndefined(evt) == evt.type # "chord" /\ evt.midi = <<>>

(* evt.midi & 0x7F: a number gives its low seven bits; an array is made a   *)
(* number through its string, which is that of its element if it has one    *)
(* element, and 0 (from NaN, or from the empty string) otherwise.           *)
midiByte(evt) ==
  IF evt.type = "chord" /\ Len(evt.midi) # 1 THEN 0 ELSE evt.midi[1] % 128

(* (evt.velocity || 64) & 0x7F: a missing velocity and the velocity 0 are 64 *)
velocityByte(evt) ==
  IF evt.velocity = <<>> \/ evt.velocity = <<0>> THEN 64
                                                   ELSE evt.velocity[1] % 128

(* (evt.channel || 1) - 1, for the channels 1..16 *)
channelOf(evt) == (IF evt.channel = 0 THEN 1 ELSE evt.channel) - 1

(* msPerTick = (60000 / tempo) / ticksPerBeat, so t / msPerTick is          *)
(* t * tempo * ticksPerBeat / 60000.  For whole t and tempo that quotient   *)
(* is never half-way between two integers with ticksPerBeat = 480.  The     *)
(* whole multiples of 60000 / ticksPerBeat ms in t give a whole number of   *)
(* ticks and are taken out before the rounding, which keeps the product     *)
(* small for the times of a long recording.                                 *)
ticksOf(ms, bpm) ==
  LET whole == 60000 \div ticksPerBeat
  IN (ms \div whole) * bpm + Round((ms % whole) * bpm * ticksPerBeat, 60000)

(* the body of sorted.forEach in buildMidiFile, from the event list left    *)
(* and the lastTick reached                                                 *)
RECURSIVE noteBytes(_, _, _)
noteBytes(sorted, lastTick, bpm) ==
  IF sorted = <<>>
    THEN <<>>
    ELSE LET evt == Head(sorted)
             tick == ticksOf(evt.time, bpm)
             delta == tick - lastTick
             noteDur == ticksOf(200, bpm)
         IN IF midiUndefined(evt)
              THEN noteBytes(Tail(sorted), lastTick, bpm)
              ELSE writeVarLen(delta)
                     \o <<144 + channelOf(evt), midiByte(evt), velocityByte(evt)>>
                     \o writeVarLen(noteDur)
                     \o <<128 + channelOf(evt), midiByte(evt), 0>>
                     \o noteBytes(Tail(sorted), tick, bpm)

(* the bytes of n, most significant first, in k bytes *)
RECURSIVE bigEndian(_, _)
bigEndian(n, k) ==
  IF k = 0 THEN <<>> ELSE bigEndian(n \div 256, k - 1) \o <<n % 256>>

(* (a file whose track length leaves the tempo event out) *)
buildMidiFileShortLength(events, durationMs) ==
  LET trackData == noteBytes(sortByTime(events), 0, tempo)
                     \o <<0, 255, 47, 0>>
      tempoMicro == Round(60000000, tempo)
      tempoBytes == <<0, 255, 81, 3>> \o bigEndian(tempoMicro % 16777216, 3)
      fullTrack == tempoBytes \o trackData
      header == <<77, 84, 104, 100, 0, 0, 0, 6, 0, 0, 0, 1>>
                  \o bigEndian(ticksPerBeat % 65536, 2)
      trackHeader == <<77, 84, 114, 107>> \o bigEndian(Len(trackData), 4)
  IN header \o trackHeader \o fullTrack

(* buildMidiFile(events, durationMs), with the tempo Rhythm.getTempo()      *)
(* returns                                                                  *)
buildMidiFile(events, durationMs) ==
  LET trackData == noteBytes(sortByTime(events), 0, tempo)
                     \o <<0, 255, 47, 0>>
      tempoMicro == Round(60000000, tempo)
      tempoBytes == <<0, 255, 81, 3>> \o bigEndian(tempoMicro % 16777216, 3)
      fullTrack == tempoBytes \o trackData
      header == <<77, 84, 104, 100, 0, 0, 0, 6, 0, 0, 0, 1>>
                  \o bigEndian(ticksPerBeat % 65536, 2)
      trackHeader == <<77, 84, 114, 107>> \o bigEndian(Len(fullTrack), 4)
  IN header \o trackHeader \o fullTrack

(* layers.flatMap(l => l.events) *)
RECURSIVE flatEvents(_)
flatEvents(ls) ==
  IF ls = <<>> THEN <<>> ELSE Head(ls).events \o flatEvents(Tail(ls))

(* (an exportMIDI that empties the event log) *)
ExportMIDIEmptying ==
  /\ download' = << [filename |-> "omnichord-loop.mid",
                     bytes |-> buildMidiFile(flatEvents(layers), loopDurationMs)] >>
  /\ eventLog' = <<>>
  /\ UNCHANGED <<decoded, audioReady, now, rhythmVars, state, mediaRecorder,
                 recorders, audioBlob, audioElement, loopsPlaying,
                 recordStartTime, loopLengthBars, loopDurationMs, layers,
                 timers, history>>

(* exportMIDI() *)
ExportMIDI ==
  /\ LET allEvents == flatEvents(layers)
     IN IF Len(allEvents) = 0
          THEN UNCHANGED download
          ELSE download' =
                 << [filename |-> "omnichord-loop.mid",
                     bytes |-> buildMidiFile(allEvents, loopDurationMs)] >>
  /\ UNCHANGED <<decoded, audioReady, now, rhythmVars, state, mediaRecorder,
                 recorders, audioBlob, audioElement, loopsPlaying, eventLog,
                 recordStartTime, loopLengthBars, loopDurationMs, layers,
                 timers, history>>

(* ======================= WAV export =================================== *)

(* A sample is held in quarters: the integer v stands for the float v / 4. *)
SampleUnit == 4

(* sample rates and sample values (below -1, negative, positive, above 1) *)
SampleRates == {8000, 48000}
SampleInputs == {-6, -1, 3, 5}

(* the channels of a buffer: c Float32Arrays of one length *)
ChannelData(c) ==
  UNION { [1..c -> [1..k -> SampleInputs]] : k \in 0..MaxSamples }

(* AudioBuffers ctx.decodeAudioData can resolve to: numberOfChannels,      *)
(* sampleRate and the Float32Array of each channel.                        *)
DecodedBuffers ==
  UNION { { [numberOfChannels |-> c, sampleRate |-> r, data |-> d] :
              r \in SampleRates, d \in ChannelData(c) } : c \in {1, 2} }

(* the buffers the recording of the MIDI export states decodes to *)
FewBuffers ==
  { [numberOfChannels |-> 1, sampleRate |-> 48000, data |-> << <<-6, 3>> >>],
    [numberOfChannels |-> 2, sampleRate |-> 8000,
     data |-> << <<-1>>, <<5>> >>] }

(* writeString: the char codes of the four tags the header uses *)
writeString(string) ==
  CASE string = "RIFF" -> <<82, 73, 70, 70>>
    [] string = "WAVE" -> <<87, 65, 86, 69>>
    [] string = "fmt " -> <<102, 109, 116, 32>>
    [] string = "data" -> <<100, 97, 116, 97>>

(* (the k bytes of n written most significant first) *)
mostSignificantFirst(n, k) == bigEndian(n, k)

(* view.setUint32(., n, true) and view.setUint16(., n, true): the k bytes  *)
(* of n, least significant first                                           *)
RECURSIVE littleEndian(_, _)
littleEndian(n, k) ==
  IF k = 0 THEN <<>> ELSE <<n % 256>> \o littleEndian(n \div 256, k - 1)

(* the interleaving loop: left[i], right[i] for each i *)
RECURSIVE interleave(_, _)
interleave(left, right) ==
  IF left = <<>> THEN <<>>
  ELSE <<Head(left), Head(right)>> \o interleave(Tail(left), Tail(right))

(* setInt16 of a quotient: truncated toward zero, then modulo 2^16 *)
toInt16(n, d) ==
  LET q == IF n >= 0 THEN n \div d ELSE -((-n) \div d)
  IN (q + 65536) % 65536

(* one sample: s clamped to [-1, 1]; s < 0 ? s * 0x8000 : s * 0x7FFF *)
sampleBytes(v) ==
  LET s == Max(-SampleUnit, Min(SampleUnit, v))
  IN littleEndian(toInt16(IF s < 0 THEN s * 32768 ELSE s * 32767, SampleUnit), 2)

RECURSIVE writeSamples(_)
writeSamples(interleaved) ==
  IF interleaved = <<>> THEN <<>>
  ELSE sampleBytes(Head(interleaved)) \o writeSamples(Tail(interleaved))

(* (an encoder that never interleaves: the first channel only) *)
audioBufferToWavFirstChannel(buffer) ==
  LET numChannels == buffer.numberOfChannels
      sampleRate == buffer.sampleRate
      format == 1
      bitsPerSample == 16
      interleaved == buffer.data[1]
      dataLength == Len(interleaved) * (bitsPerSample \div 8)
  IN writeString("RIFF") \o littleEndian(36 + dataLength, 4)
       \o writeString("WAVE") \o writeString("fmt ")
       \o littleEndian(16, 4) \o littleEndian(format, 2)
       \o littleEndian(numChannels, 2) \o littleEndian(sampleRate, 4)
       \o littleEndian((sampleRate * numChannels * bitsPerSample) \div 8, 4)
       \o littleEndian((numChannels * bitsPerSample) \div 8, 2)
       \o littleEndian(bitsPerSample, 2)
       \o writeString("data") \o littleEndian(dataLength, 4)
       \o writeSamples(interleaved)

(* audioBufferToWav(buffer): the bytes of the ArrayBuffer it returns *)
audioBufferToWav(buffer) ==
  LET numChannels == buffer.numberOfChannels
      sampleRate == buffer.sampleRate
      format == 1
      bitsPerSample == 16
      interleaved == IF numChannels = 2
                       THEN interleave(buffer.data[1], buffer.data[2])
                       ELSE buffer.data[1]
      dataLength == Len(interleaved) * (bitsPerSample \div 8)
  IN writeString("RIFF") \o littleEndian(36 + dataLength, 4)
       \o writeString("WAVE") \o writeString("fmt ")
       \o littleEndian(16, 4) \o littleEndian(format, 2)
       \o littleEndian(numChannels, 2) \o littleEndian(sampleRate, 4)
       \o littleEndian((sampleRate * numChannels * bitsPerSample) \div 8, 4)
       \o littleEndian((numChannels * bitsPerSample) \div 8, 2)
       \o littleEndian(bitsPerSample, 2)
       \o writeString("data") \o littleEndian(dataLength, 4)
       \o writeSamples(interleaved)

(* exportWAV(): returns at once without layers; otherwise the first        *)
(* layer's blob is decoded, and the call ends without a file when the      *)
(* decoding fails.  Nothing of the recorder is read after the awaits, so   *)
(* the call and its continuation are one step.                             *)
ExportWAV ==
  /\ IF Len(layers) = 0 \/ decoded = <<>>
       THEN UNCHANGED download
       ELSE download' = << [filename |-> "omnichord-loop.wav",
                            bytes |-> audioBufferToWav(decoded[1])] >>
  /\ UNCHANGED <<decoded, audioReady, now, rhythmVars, state, mediaRecorder,
                 recorders, audioBlob, audioElement, loopsPlaying, eventLog,
                 recordStartTime, loopLengthBars, loopDurationMs, layers,
                 timers, history>>

(* ======================= the system =================================== *)

Init ==
  /\ audioReady = FALSE
  /\ now = 0
  /\ playing = FALSE
  /\ tempo = DEFAULT_TEMPO
  /\ currentStep = 0
  /\ currentPattern = "rock"
  /\ nextStepTime = 0
  /\ metronomeOn = FALSE
  /\ countInCallback = <<>>
  /\ countInStep = -1
  /\ cbQueue = <<>>
  /\ requests = [issued |-> 0, invoked |-> <<>>, replaced |-> {}]
  /\ dispatched = Untracked
  /\ state = "idle"
  /\ mediaRecorder = 0
  /\ recorders = <<>>
  /\ audioBlob = <<>>
  /\ audioElement = FALSE
  /\ loopsPlaying = 0
  /\ eventLog = <<>>
  /\ recordStartTime = 0
  /\ loopLengthBars = DEFAULT_BARS
  /\ loopDurationMs = 0
  /\ layers = <<>>
  /\ timers = {}
  /\ download = <<>>
  /\ decoded = <<>>
  /\ history = [cancelled |-> {}, cleared |-> FALSE]

(* The recorder with the scheduler it counts in on. *)
Next ==
  \/ AudioInit \/ ThrottledTick
  \/ StartRecording \/ CountInFire \/ StartOverdub \/ StopRecording
  \/ DeadlineFire \/ CaptureStopped \/ LogEvent
  \/ PlayLoop \/ StopPlayback \/ Clear \/ SetLoopLength

Spec == Init /\ [][Next]_vars

(* ---- Rhythm on its own: its public interface under any client --------- *)

(* A client calls Rhythm.startCountIn(null, callback).  The recorder, the   *)
(* only client in the repository, calls it once Audio.getMediaStream() has  *)
(* given a stream, in any state but 'recording' and 'counting-in', which    *)
(* stopRecording(), stopPlayback() and clear() leave at any time.           *)
ClientStartCountIn ==
  /\ getMediaStream
  /\ requests.issued < MaxRequests
  /\ startCountIn
  /\ UNCHANGED <<audioReady, now, recorderVars>>

(* The closure handed to setTimeout(cb, 0) runs; what the client's callback *)
(* does is outside Rhythm.                                                  *)
ClientCallback ==
  /\ cbQueue # <<>>
  /\ cbQueue' = Tail(cbQueue)
  /\ metronomeOn' = closureMetronome(Head(cbQueue))
  /\ requests' = [requests EXCEPT !.invoked = Append(@, Head(cbQueue).id)]
  /\ UNCHANGED <<audioReady, now, playing, tempo, currentStep, currentPattern,
                 nextStepTime, countInCallback, countInStep, dispatched,
                 recorderVars>>

NextRhythm ==
  \/ AudioInit \/ Tick \/ Advance
  \/ RhythmStart \/ RhythmStop \/ RhythmToggle
  \/ SetTempo \/ SetPattern
  \/ ClientStartCountIn \/ ClientCallback

SpecRhythm == Init /\ [][NextRhythm]_vars

(* Base recordings of a fixed length with the tempo and pattern controls   *)
(* in use: the record button, the loop length selector, the tempo slider   *)
(* and the pattern buttons.                                                *)
NextLength ==
  \/ AudioInit \/ LengthTick
  \/ SetTempo \/ SetPattern \/ SetLoopLength
  \/ StartRecording \/ CountInFire \/ StopRecording
  \/ DeadlineFire \/ CaptureStopped

SpecLength == Init /\ [][NextLength]_vars

(* ---- the exporter, on the loops a recording leaves ------------------- *)

(* the event logs of a recording: at most MaxEvents events, in the order    *)
(* of their times                                                           *)
EventLogs ==
  { log \in UNION { [1..k -> { LoggedEvent(t, data) :
                                 t \in EventTimes,
                                 data \in EventInputs \cup NoNoteInputs }] :
                    k \in 0..MaxEvents } :
      \A i \in 1..(Len(log) - 1) : log[i].time <= log[i + 1].time }

(* After a free-length recording: counted in on the default pattern and     *)
(* tempo from time 0, started at the end of the lead-in bar, stopped one    *)
(* bar later, its capture completed, and the rhythm stopped; log is what   *)
(* was played and dec what the recorded audio decodes to.                  *)
AfterRecording(log, dec) ==
    LET bar == getBarDuration("rock", DEFAULT_TEMPO)
    IN /\ audioReady = TRUE
       /\ now = 2 * bar
       /\ playing = FALSE
       /\ tempo = DEFAULT_TEMPO
       /\ currentStep = 0
       /\ currentPattern = "rock"
       /\ nextStepTime = 2 * bar + getStepDuration(DEFAULT_TEMPO)
       /\ metronomeOn = FALSE
       /\ countInCallback = <<>>
       /\ countInStep = -1
       /\ cbQueue = <<>>
       /\ requests = [issued |-> 1, invoked |-> <<1>>, replaced |-> {}]
       /\ dispatched = Untracked
       /\ state = "idle"
       /\ mediaRecorder = 1
       /\ recorders = << [onstop |-> "onRecordingStop", mrState |-> "inactive",
                          stopping |-> FALSE, log |-> <<>>, commits |-> 1, at |-> 0,
                          was |-> 0] >>
       /\ audioBlob = <<1>>
       /\ audioElement = FALSE
       /\ loopsPlaying = 0
       /\ eventLog = log
       /\ recordStartTime = bar
       /\ loopLengthBars = 0
       /\ loopDurationMs = bar
       /\ layers = << [blob |-> 1, events |-> log] >>
       /\ timers = {}
       /\ download = <<>>
       /\ decoded = dec
       /\ history = [cancelled |-> {}, cleared |-> FALSE]

InitMidi ==
  \E log \in EventLogs, dec \in {<<>>} \cup {<<b>> : b \in FewBuffers} :
    AfterRecording(log, dec)

NextMidi == ExportMIDI \/ ExportWAV \/ SetTempo

SpecMidi == InitMidi /\ [][NextMidi]_vars

(* The WAV export of a recording, for every audio it can decode to. *)
InitWav ==
  \E dec \in {<<>>} \cup {<<b>> : b \in DecodedBuffers} :
    AfterRecording(<<>>, dec)

NextWav == ExportWAV

SpecWav == InitWav /\ [][NextWav]_vars

(* ======================= the claims =================================== *)

Last(q) == q[Len(q)]

(* a count-in callback was invoked in this step *)
CallbackInvoked == Len(requests'.invoked) > Len(requests.invoked)

(* the capture that mediaRecorder holds is an overdub still recording *)
OverdubInProgress ==
  /\ mediaRecorder # 0
  /\ recorders[mediaRecorder].onstop = "onOverdubStop"
  /\ recorders[mediaRecorder].mrState = "recording"

(* C1: the callback of a count-in that stopRecording() cancelled is a       *)
(* no-op when it fires: the recorder state, the captures and the event log  *)
(* are as they were.                                                        *)
C1_StaleCallbackIsNoOp ==
  [][ (CallbackInvoked /\ Last(requests'.invoked) \in history.cancelled)
        => /\ state' = state
           /\ recorders' = recorders
           /\ eventLog' = eventLog ]_vars

(* C2: every public method of the recorder performs a transition that      *)
(* section 4.3 defines for the state it is called in, or leaves the state  *)
(* as it is.                                                                *)
C2_StateTotality ==
  [][ /\ StartRecording =>
           (state' = state \/ (state = "idle" /\ state' = "counting-in"))
      /\ StartOverdub =>
           (state' = state
              \/ (state = "idle" /\ state' \in {"overdub", "counting-in"}))
      /\ StopRecording =>
           (state' = state \/ (state = "counting-in" /\ state' = "idle"))
      /\ PlayLoop =>
           (state' = state \/ (state = "idle" /\ state' = "playing"))
      /\ StopPlayback =>
           (state' = state \/ (state = "playing" /\ state' = "idle"))
      /\ Clear => state' = "idle"
      /\ LogEvent => state' = state
      /\ SetLoopLength => state' = state ]_vars

(* C3: while the capture of an overdub is in progress, getState() is       *)
(* 'overdub' (from the return of startOverdub() on).                        *)
C3_OverdubWhileCapturing ==
  OverdubInProgress => state = "overdub"

(* stopRecording(), called now, stops the overdub capture in progress *)
StopWouldEndOverdub ==
  OverdubInProgress =>
    stopRecording.recorders[mediaRecorder].mrState = "inactive"

(* the completion of an overdub capture is delivered in this step *)
OverdubCompleted ==
  \E id \in 1..Len(recorders) :
    /\ recorders[id].onstop = "onOverdubStop"
    /\ recorders[id].stopping
    /\ ~recorders'[id].stopping

(* C4: stopRecording() during an overdub capture stops the capture, and    *)
(* its completion appends exactly one Layer, ends in 'idle' and stops the  *)
(* practice playback.                                                       *)
C4_StopRecordingEndsOverdub ==
  [][ /\ StopWouldEndOverdub'
      /\ OverdubCompleted =>
           /\ Len(layers') = Len(layers) + 1
           /\ SubSeq(layers', 1, Len(layers)) = layers
           /\ state' = "idle"
           /\ loopsPlaying' = 0 ]_vars

(* C5: with a free loop length fixed to D by the base recording, an overdub *)
(* capture is never in progress later than D after the overdub started.     *)
C5_OverdubStopsAtLoopDuration ==
  (loopLengthBars = 0 /\ loopDurationMs > 0 /\ OverdubInProgress)
    => now <= recordStartTime + loopDurationMs

(* C6: from clear() until a recording or an overdub is started, the        *)
(* recorder is 'idle' and has no Layer.                                     *)
C6_ClearedStaysCleared ==
  history.cleared => (state = "idle" /\ layers = <<>>)

(* ---- reading a track back ---- *)

(* the variable-length quantity at pos: its value and the position after *)
RECURSIVE readVarLen(_, _, _)
readVarLen(bytes, pos, acc) ==
  IF bytes[pos] >= 128
    THEN readVarLen(bytes, pos + 1, acc * 128 + (bytes[pos] - 128))
    ELSE [value |-> acc * 128 + bytes[pos], next |-> pos + 1]

(* the channel events of the track from pos on, each with the sum of the   *)
(* delta-times up to and including its own                                  *)
RECURSIVE trackEvents(_, _, _)
trackEvents(bytes, pos, sum) ==
  LET d == readVarLen(bytes, pos, 0)
      at == d.next
      tick == sum + d.value
  IN IF bytes[at] = 255
       THEN IF bytes[at + 1] = 47
              THEN <<>>
              ELSE trackEvents(bytes, at + 3 + bytes[at + 2], tick)
       ELSE << [tick |-> tick, status |-> bytes[at], data1 |-> bytes[at + 1],
                data2 |-> bytes[at + 2]] >>
              \o trackEvents(bytes, at + 3, tick)

IsNoteOn(e) == e.status \div 16 = 9
HasMidi(evt) == ~midiUndefined(evt)

(* the Note-Ons of a file, after its 14-byte header and 8-byte track header *)
NoteOns(bytes) == SelectSeq(trackEvents(bytes, 23, 0), IsNoteOn)

(* the k-th Note-On of the file is at round(time / msPerTick) of the k-th   *)
(* event with a note, to one tick                                           *)
DeltaSumsMatch(bytes, events, bpm) ==
  LET ons == NoteOns(bytes)
      notes == SelectSeq(sortByTime(events), HasMidi)
  IN /\ Len(ons) = Len(notes)
     /\ \A k \in 1..Len(ons) :
          LET want == Round(notes[k].time * bpm * ticksPerBeat, 60000)
          IN ons[k].tick - want \in {-1, 0, 1}

(* C7: in the file exportMIDI() offers, the delta-times up to and including *)
(* the Note-On of each event with a note sum to round(time / msPerTick),    *)
(* to one tick.                                                             *)
C7_DeltasSumToEventTick ==
  [][ (download' # download /\ download'[1].filename = "omnichord-loop.mid") =>
        DeltaSumsMatch(download'[1].bytes, flatEvents(layers), tempo) ]_vars

(* ---- the count-in on the scheduler ---- *)

(* the scheduler hands a count-in callback to setTimeout in this step *)
CallbackFired == Len(cbQueue') > Len(cbQueue)

(* the requests the scheduler holds, has fired, and has called back *)
Held == {countInCallback[i].id : i \in 1..Len(countInCallback)}
Fired == {cbQueue[i].id : i \in 1..Len(cbQueue)}
Invoked == {requests.invoked[i] : i \in 1..Len(requests.invoked)}

(* C8: the callback of a count-in requested on a scheduler that was not     *)
(* running fires at the second dispatch of step 0 since the request, after  *)
(* exactly stepCount steps have been dispatched, and the request is still   *)
(* held after the step 0 dispatched on start.                               *)
C8_IdleCountInFiresAfterOneBar ==
  [][ /\ (CallbackFired /\ ~Last(cbQueue').wasPlaying) =>
           /\ Last(cbQueue').zeros = 2
           /\ Last(cbQueue').steps = getPatternSteps(currentPattern)
      /\ (countInCallback' # <<>> /\ ~countInCallback'[1].wasPlaying) =>
           countInCallback'[1].zeros <= 1 ]_vars

(* C9: the callback of a count-in requested on a running scheduler fires at *)
(* the first dispatch of step 0 after the request: a request the scheduler  *)
(* still holds has seen no step 0, and a fired one has seen exactly one.    *)
C9_RunningCountInFiresAtNextStepZero ==
  /\ (countInCallback # <<>> /\ countInCallback[1].wasPlaying) =>
       countInCallback[1].zeros = 0
  /\ \A i \in 1..Len(cbQueue) :
       cbQueue[i].wasPlaying => cbQueue[i].zeros = 1

(* a count-in requested on a running scheduler has fired at a step 0 that   *)
(* other steps came before                                                  *)
C9_Witness ==
  \E i \in 1..Len(cbQueue) :
    /\ cbQueue[i].wasPlaying
    /\ cbQueue[i].steps > 0
    /\ cbQueue[i].zeros = 1

(* C10: the scheduler holds at most one request, no callback is invoked     *)
(* twice, and every request made is held, fired or invoked: none is dropped *)
C10_RequestsConsumedExactlyOnce ==
  /\ Len(countInCallback) <= 1
  /\ \A i, j \in 1..Len(requests.invoked) :
       i # j => requests.invoked[i] # requests.invoked[j]
  /\ \A id \in 1..requests.issued :
       /\ id \in Held \cup Fired \cup Invoked
       /\ ~(id \in Held /\ id \in Fired)
       /\ ~(id \in Held /\ id \in Invoked)
       /\ ~(id \in Fired /\ id \in Invoked)

(* C11: with the metronome off before the first count-in request and no   *)
(* toggleMetronome() call, the metronome is off again once a count-in      *)
(* callback has run.                                                        *)
C11_MetronomeRestored ==
  [][ CallbackInvoked => metronomeOn' = FALSE ]_vars

(* C12: while tempo and pattern are those of the last start(), the k-th    *)
(* step dispatched since that start() (k = 0, 1, ...) has the time         *)
(* start + k * stepDuration, in every scheduler pass however late, and the  *)
(* next step is due at start + (steps dispatched) * stepDuration.           *)
C12_NoDrift ==
  dispatched.steady =>
    LET d == getStepDuration(tempo)
        first == dispatched.k - Len(dispatched.pass)
    IN /\ \A i \in 1..Len(dispatched.pass) :
            dispatched.pass[i].time = dispatched.at + (first + i - 1) * d
       /\ playing => nextStepTime = dispatched.at + dispatched.k * d

(* a start() at a time other than 0, passes of different sizes since, and  *)
(* more than a bar dispatched                                               *)
C12_Witness ==
  /\ dispatched.steady
  /\ playing
  /\ dispatched.at > 0
  /\ dispatched.k > getPatternSteps(currentPattern)
  /\ Len(dispatched.pass) > 1
  /\ dispatched.k - Len(dispatched.pass) > Len(dispatched.pass)

(* C13: logEvent(kind, data) called in 'idle', 'counting-in' or 'playing'  *)
(* changes nothing: no call of it leads to a state that differs in the     *)
(* event log, the layers, the recorder state or anything else.              *)
C13_LogEventOutsideRecordingIsNoOp ==
  state \in {"idle", "counting-in", "playing"} =>
    ~ENABLED (LogEvent /\ vars' # vars)

(* a count-in with the log and the Layer of an earlier recording in place  *)
C13_Witness ==
  /\ state = "counting-in"
  /\ eventLog # <<>>
  /\ layers # <<>>

(* the completion of the base recording id is delivered in this step *)
RecordingCompleted(id) ==
  /\ recorders[id].onstop = "onRecordingStop"
  /\ recorders[id].stopping
  /\ ~recorders'[id].stopping

(* C14: when a base recording finalizes, the layers are exactly one Layer, *)
(* with the events logged since that recording actually started, in the    *)
(* order of their arrival.                                                  *)
C14_RecordingCommitsItsEvents ==
  [][ \A id \in 1..Len(recorders) :
        RecordingCompleted(id) =>
          layers' = << [blob |-> id, events |-> recorders[id].log] >> ]_vars

(* actuallyStartRecording runs in this step *)
RecordingStarts == cbQueue # <<>> /\ cbQueue' = Tail(cbQueue)

(* C15: with the loop length 'free', no deadline is armed when a base      *)
(* recording starts, and the loop duration after a base recording          *)
(* finalizes is the time elapsed between its start and its completion,     *)
(* for the first base recording and for every later one.                   *)
C15_FreeLengthIsMeasured ==
  [][ loopLengthBars = 0 =>
        /\ RecordingStarts => timers' = timers
        /\ \A id \in 1..Len(recorders) :
             RecordingCompleted(id) =>
               loopDurationMs' = now - recorders[id].at ]_vars

(* C16: with a loop length of N bars, the loop duration of a base          *)
(* recording is N bar durations at the tempo and pattern in force when the *)
(* recording actually starts: it is set so at the start, with the deadline *)
(* that far ahead, a tempo or pattern change leaves it alone, and the      *)
(* completion of the recording keeps it.                                   *)
C16_FixedLengthUsesTempoAtStart ==
  [][ loopLengthBars > 0 =>
        /\ RecordingStarts =>
             LET bar == getBeatsPerBar(currentPattern) * (60000 \div tempo)
             IN /\ loopDurationMs' = loopLengthBars * bar
                /\ [kind |-> "recording", due |-> now + loopLengthBars * bar]
                     \in timers'
        /\ (tempo' # tempo \/ currentPattern' # currentPattern) =>
             loopDurationMs' = loopDurationMs
        /\ \A id \in 1..Len(recorders) :
             (RecordingCompleted(id) /\ loopDurationMs > 0) =>
               loopDurationMs' = loopDurationMs ]_vars

(* a one-bar waltz recording runs at the highest tempo, with its deadline  *)
(* 900 ms after its start, where setLoopLength had left 2000 ms            *)
C16_Witness ==
  /\ loopLengthBars = 1 /\ tempo = MAX_TEMPO
  /\ getBeatsPerBar(currentPattern) = 3
  /\ state = "recording" /\ mediaRecorder > 0
  /\ recorders[mediaRecorder].was = 2000
  /\ loopDurationMs = 900
  /\ [kind |-> "recording", due |-> recorders[mediaRecorder].at + 900] \in timers

(* the audio captures in progress: started and not yet stopped *)
CapturesInProgress ==
  {id \in 1..Len(recorders) : recorders[id].mrState = "recording"}

(* C17: at most one audio capture is in progress at any time. *)
C17_OneCaptureAtATime == Cardinality(CapturesInProgress) <= 1

(* C18: after stopPlayback() no layer audio is playing: in no state can a  *)
(* stopPlayback() call end with a looping Audio element still playing.     *)
C18_StopPlaybackSilences == ~ENABLED (StopPlayback /\ loopsPlaying' # 0)

(* C19: calls whose precondition fails change nothing.  Without layers,   *)
(* playLoop(), exportWAV() and exportMIDI() leave every variable as it is  *)
(* (the state, no playback started, no file produced); stopRecording()     *)
(* while the state is idle leaves the state, the layers and the event log  *)
(* as they are.                                                            *)
C19_PreconditionViolationsAreNoOps ==
  /\ Len(layers) = 0 =>
       /\ ~ENABLED (PlayLoop /\ vars' # vars)
       /\ ~ENABLED (ExportWAV /\ vars' # vars)
       /\ ~ENABLED (ExportMIDI /\ vars' # vars)
  /\ state = "idle" =>
       ~ENABLED (StopRecording /\ <<state, layers, eventLog>>' # <<state, layers, eventLog>>)

(* idle without layers, while a capture runs and the log holds an event *)
C19_Witness ==
  /\ Len(layers) = 0 /\ state = "idle"
  /\ eventLog # <<>>
  /\ CapturesInProgress # {}
  /\ ENABLED PlayLoop /\ ENABLED ExportWAV /\ ENABLED ExportMIDI
  /\ ENABLED StopRecording

(* the layers built from the audio of capture id *)
LayersOf(id) == {i \in 1..Len(layers) : layers[i].blob = id}

(* C20: stopRecording() during a recording commits nothing by itself: the  *)
(* call, and the deadline, leave the layers as they are and the state      *)
(* 'recording'; a capture whose completion is pending has no layer yet;    *)
(* and the completion of a capture runs once and commits one layer, also   *)
(* when stopRecording() is called again or the deadline fires meanwhile.   *)
C20_CommitAtCompletionOnly ==
  /\ state = "recording" =>
       /\ ~ENABLED (StopRecording /\ <<state, layers>>' # <<state, layers>>)
       /\ ~ENABLED (DeadlineFire /\ <<state, layers>>' # <<state, layers>>)
  /\ \A id \in 1..Len(recorders) :
       /\ recorders[id].commits <= 1
       /\ recorders[id].stopping => recorders[id].commits = 0
       /\ Cardinality(LayersOf(id)) <= recorders[id].commits

(* a recording has been stopped, its completion is pending, and both a     *)
(* second stopRecording() and its deadline can still come                  *)
C20_Witness ==
  /\ state = "recording" /\ mediaRecorder > 0
  /\ recorders[mediaRecorder].stopping
  /\ \E tm \in timers :
       /\ tm.kind = "recording"
       /\ tm.due = recorders[mediaRecorder].at + loopDurationMs
       /\ tm.due <= MaxRecTime
  /\ ENABLED DeadlineFire

(* ---- the WAV file ---- *)

(* the unsigned number in the k bytes after offset, least significant first *)
RECURSIVE readLittleEndian(_, _, _)
readLittleEndian(bytes, offset, k) ==
  IF k = 0 THEN 0
  ELSE bytes[offset + 1] + 256 * readLittleEndian(bytes, offset + 1, k - 1)

(* a WAV file has been offered; it was encoded from decoded[1] *)
WavOffered ==
  /\ download # <<>>
  /\ download[1].filename = "omnichord-loop.wav"

(* C21: for a decoded buffer of K samples per channel, sample rate R and   *)
(* C channels (1 or 2), the WAV file is 44 + K * C * 2 bytes long and its  *)
(* header reads C channels, sample rate R and 16 bits per sample.          *)
C21_WavLengthAndFormat ==
  WavOffered =>
    LET buffer == decoded[1]
        wav == download[1].bytes
        K == Len(buffer.data[1])
        C == buffer.numberOfChannels
    IN /\ Len(wav) = 44 + K * C * 2
       /\ readLittleEndian(wav, 22, 2) = C
       /\ readLittleEndian(wav, 24, 4) = buffer.sampleRate
       /\ readLittleEndian(wav, 34, 2) = 16

(* the file of a stereo buffer with more than one sample per channel *)
C21_Witness ==
  /\ WavOffered
  /\ decoded[1].numberOfChannels = 2
  /\ Len(decoded[1].data[1]) > 1
  /\ decoded[1].sampleRate = 48000
  /\ Len(download[1].bytes) > 44

(* C22: in every WAV file offered the derived header fields agree with    *)
(* the payload and with each other, read least significant byte first:     *)
(* chunk size = 36 + data length, data length = samples * channels * 2 =   *)
(* file length - 44, byte rate = sample rate * channels * 2, block align = *)
(* channels * 2, format tag = 1.                                           *)
C22_WavHeaderConsistent ==
  WavOffered =>
    LET wav == download[1].bytes
        channels == readLittleEndian(wav, 22, 2)
        sampleRate == readLittleEndian(wav, 24, 4)
        dataLength == readLittleEndian(wav, 40, 4)
        numSamples == Len(decoded[1].data[1])
    IN /\ readLittleEndian(wav, 4, 4) = 36 + dataLength
       /\ dataLength = numSamples * channels * 2
       /\ dataLength = Len(wav) - 44
       /\ readLittleEndian(wav, 28, 4) = sampleRate * channels * 2
       /\ readLittleEndian(wav, 32, 2) = channels * 2
       /\ readLittleEndian(wav, 20, 2) = 1
       /\ sampleRate = decoded[1].sampleRate

(* the file of a stereo buffer at 8000 Hz with samples: byte rate 32000 *)
C22_Witness ==
  /\ WavOffered
  /\ decoded[1].numberOfChannels = 2
  /\ decoded[1].sampleRate = 8000
  /\ decoded[1].data[1] # <<>>
  /\ readLittleEndian(download[1].bytes, 28, 4) = 32000

(* ---- the MIDI file ---- *)

(* the unsigned number in the k bytes after offset, most significant first *)
RECURSIVE readBigEndian(_, _, _)
readBigEndian(bytes, offset, k) ==
  IF k = 0 THEN 0
  ELSE bytes[offset + k] + 256 * readBigEndian(bytes, offset, k - 1)

(* exportMIDI() offers a file in this step *)
MidiOffered ==
  /\ download' # download
  /\ download'[1].filename = "omnichord-loop.mid"

(* C23: the MIDI file offered is the 14-byte MThd header (length 6, format *)
(* 0, one track, division 480) and one MTrk chunk whose declared length is *)
(* the number of bytes that follow it; the track begins with the tempo     *)
(* meta-event FF 51 03 at delta 0 carrying round(60,000,000 / tempo) and   *)
(* ends with End-of-Track FF 2F 00 at delta 0.                             *)
C23_MidiFileStructure ==
  [][ MidiOffered =>
        LET f == download'[1].bytes
            n == Len(f)
        IN /\ n >= 14 + 8 + 7 + 4
           /\ SubSeq(f, 1, 14) = <<77, 84, 104, 100, 0, 0, 0, 6, 0, 0, 0, 1, 1, 224>>
           /\ readBigEndian(f, 12, 2) = 480
           /\ SubSeq(f, 15, 18) = <<77, 84, 114, 107>>
           /\ readBigEndian(f, 18, 4) = n - 22
           /\ SubSeq(f, 23, 26) = <<0, 255, 81, 3>>
           /\ readBigEndian(f, 26, 3) = (2 * 60000000 + tempo) \div (2 * tempo)
           /\ SubSeq(f, n - 3, n) = <<0, 255, 47, 0>> ]_vars

(* a file with notes, exported at the highest tempo: 300000 us per beat *)
C23_Witness ==
  /\ download # <<>>
  /\ download[1].filename = "omnichord-loop.mid"
  /\ tempo = MAX_TEMPO
  /\ readBigEndian(download[1].bytes, 26, 3) = 300000
  /\ Len(download[1].bytes) > 14 + 8 + 7 + 4 + 8

(* the lists with the elements of q in every order *)
Perms(q) ==
  { [i \in 1..Len(q) |-> q[f[i]]] :
      f \in { g \in [1..Len(q) -> 1..Len(q)] :
                \A i, j \in 1..Len(q) : i # j => g[i] # g[j] } }

Ascending(q) == \A i \in 1..(Len(q) - 1) : q[i].time <= q[i + 1].time
DistinctTimes(q) == \A i, j \in 1..Len(q) : i # j => q[i].time # q[j].time

(* the Note-Ons are those of the events of q, one each and in that order *)
NoteOnsAre(ons, q) ==
  /\ Len(ons) = Len(q)
  /\ \A k \in 1..Len(q) :
       /\ ons[k].status = 144 + channelOf(q[k])
       /\ ons[k].data1 = midiByte(q[k])

(* C24: the file exportMIDI() offers has one Note-On for each event with a *)
(* note, in ascending order of the events' times, and nothing for an event *)
(* without a note; and for events with distinct times the file is the same *)
(* for every order in which the events could have been appended or spread  *)
(* over layers.                                                            *)
C24_SortedAndOrderIndependent ==
  [][ MidiOffered =>
        LET events == flatEvents(layers)
            f == download'[1].bytes
        IN /\ \E q \in Perms(SelectSeq(events, HasMidi)) :
                Ascending(q) /\ NoteOnsAre(NoteOns(f), q)
           /\ DistinctTimes(events) =>
                \A p \in Perms(events) : buildMidiFile(p, loopDurationMs) = f ]_vars

(* a file of three events with distinct times, one of them without a note *)
C24_Witness ==
  /\ download # <<>>
  /\ download[1].filename = "omnichord-loop.mid"
  /\ LET events == flatEvents(layers)
     IN /\ Len(events) = 3 /\ DistinctTimes(events)
        /\ \E i \in 1..3 : midiUndefined(events[i])
        /\ Len(NoteOns(download[1].bytes)) = 2

(* everything but the file offered *)
exceptDownload ==
  <<audioReady, now, rhythmVars, state, mediaRecorder, recorders, audioBlob,
    audioElement, loopsPlaying, eventLog, recordStartTime, loopLengthBars,
    loopDurationMs, layers, timers, decoded, history>>

(* the microseconds per beat that a MIDI file carries *)
TempoOf(file) == readBigEndian(file.bytes, 26, 3)

SchedulerPass == playing /\ now' # now

(* the calls scheduleStep(step, time) of the pass of this step *)
PassOf ==
  schedulerLoop([nst |-> nextStepTime, step |-> currentStep,
                 cb |-> countInCallback, cis |-> countInStep, q |-> cbQueue,
                 metro |-> metronomeOn, out |-> <<>>],
                now', tempo, currentPattern).out

TempoAndStepValid ==
  /\ tempo \in MIN_TEMPO..MAX_TEMPO
  /\ currentPattern \in PatternNames
  /\ currentStep \in 0..(PATTERNS[currentPattern].steps - 1)

(* C26: in every state the tempo is in 60..200 and the step index is below *)
(* the step count of the active pattern, also right after a switch from    *)
(* the 16-step to the 12-step pattern while running; and every step index  *)
(* a scheduler pass dispatches is below the step count of the pattern      *)
(* active at that moment.                                                  *)
C26_TempoAndStepInRange ==
  [][ /\ TempoAndStepValid /\ TempoAndStepValid'
      /\ SchedulerPass =>
           LET pass == PassOf
           IN \A i \in 1..Len(pass) :
                pass[i].step \in 0..(PATTERNS[currentPattern].steps - 1) ]_vars

(* running on the 12-step pattern after a setPattern that found the step   *)
(* index at 12 or more                                                     *)
C26_Witness ==
  /\ playing /\ dispatched.wrapped
  /\ PATTERNS[currentPattern].steps = 12
  /\ currentStep > 0

(* ---- stop() ---- *)

(* the scheduler's own state *)
schedulerState ==
  <<playing, tempo, currentStep, currentPattern, nextStepTime, metronomeOn,
    countInCallback, countInStep>>

(* C27: stop() leaves the scheduler not running at step index 0 and does   *)
(* not change tempo, pattern or metronome flag; on a scheduler that is not *)
(* running (stopped before, or never started) it changes no scheduler      *)
(* state.  Stated as: no call of stop() has another outcome.               *)
C27_StopIsIdempotent ==
  ~ENABLED (/\ RhythmStop
            /\ ~(/\ ~playing' /\ currentStep' = 0
                 /\ tempo' = tempo /\ currentPattern' = currentPattern
                 /\ metronomeOn' = metronomeOn
                 /\ (~playing => schedulerState' = schedulerState)))

(* a scheduler that ran and was stopped, with tempo, pattern and metronome *)
(* flag away from their initial values: the state a second stop() finds    *)
C27_Witness ==
  /\ ~playing /\ currentStep = 0 /\ nextStepTime > 0
  /\ tempo = MAX_TEMPO /\ currentPattern = "waltz" /\ metronomeOn

(* ---- the metronome ---- *)

(* C28: every step a scheduler pass dispatches has a metronome click       *)
(* scheduled exactly when the metronome is on and the step index is a      *)
(* multiple of 4; the click is at the step's time and is accented exactly  *)
(* when the step index is 0.  With the metronome off there is no click.    *)
C28_MetronomeOnBeats ==
  [][ SchedulerPass =>
        LET pass == PassOf
        IN \A i \in 1..Len(pass) :
             LET e == pass[i]
             IN /\ (e.click # <<>>) <=> (metronomeOn /\ e.step % 4 = 0)
                /\ e.click # <<>> =>
                     /\ e.click[1].time = e.time
                     /\ e.click[1].accent <=> (e.step = 0) ]_vars

(* one pass with an accented click, a plain click and a step without one   *)
C28_Witness ==
  /\ metronomeOn
  /\ \E i, j, k \in 1..Len(dispatched.pass) :
       /\ dispatched.pass[i].click # <<>> /\ dispatched.pass[i].click[1].accent
       /\ dispatched.pass[j].click # <<>> /\ ~dispatched.pass[j].click[1].accent
       /\ dispatched.pass[k].click = <<>>

(* ---- the order of the dispatched steps ---- *)

C30_NoClockNoScheduling ==
  ~audioReady =>
    /\ ~playing
    /\ ~ENABLED (RhythmStart /\ schedulerState' # schedulerState)
    /\ ~ENABLED (RhythmToggle /\ (playing' \/ schedulerState' # schedulerState))
    /\ ~ENABLED Tick

(* no audio clock yet, at a time when a start() would have set another     *)
(* nextStepTime                                                            *)
C30_Witness == ~audioReady /\ now > 0 /\ nextStepTime # now

(* ---- no capture stream ---- *)

ConfiguredBars == {parseInt(bars) : bars \in BarInputs \ {"free"}}

C32_ClearUnsetsLoopLength ==
  ~ENABLED (Clear /\ ~(loopDurationMs' = 0 /\ loopLengthBars' \notin ConfiguredBars))

(* ---- events played during an overdub ---- *)

(* C33: while an overdub capture is in progress every logEvent call        *)
(* appends an Event to the working log, with the time since the overdub    *)
(* started as its offset.                                                  *)
C33_OverdubLogsEvents ==
  OverdubInProgress =>
    ~ENABLED (/\ LogEvent
              /\ ~(/\ Len(eventLog') = Len(eventLog) + 1
                   /\ eventLog'[Len(eventLog')].time =
                        now - recorders[mediaRecorder].at))

(* ---- whose deadline stops a recording ---- *)

(* the auto-stop deadline stops the base recording id in this step *)
DeadlineStops(id) ==
  /\ timers' # timers
  /\ recorders[id].onstop = "onRecordingStop"
  /\ ~recorders[id].stopping /\ recorders'[id].stopping

(* C34: a base recording that an auto-stop deadline stops is stopped at    *)
(* the deadline it armed itself at its start, N x barDuration after that   *)
(* start, and never by the deadline an earlier recording armed.            *)
C34_DeadlineOfItsOwnCapture ==
  [][ \A id \in 1..Len(recorders) :
        DeadlineStops(id) => now' = recorders[id].due ]_vars

(* ---- captures and the reported state ---- *)

(* C35: an audio capture is in progress only while the recorder state is   *)
(* 'recording' or 'overdub'; in 'idle', 'counting-in' and 'playing' no     *)
(* capture is running.                                                     *)
C35_CaptureOnlyWhileRecording ==
  CapturesInProgress # {} => state \in {"recording", "overdub"}

(* ======================= The count-in handshake ======================= *)

(* The record button, the stop button and the clear button while the       *)
(* scheduler, once a count-in has started it, keeps running: its interval  *)
(* timer keeps calling scheduler(), and a callback handed to               *)
(* setTimeout(cb, 0) is run.                                               *)
NextLive ==
  \/ AudioInit \/ ThrottledTick
  \/ StartRecording \/ CountInFire \/ StopRecording \/ CaptureStopped
  \/ StopPlayback \/ Clear

(* The interval timer start() created is due and the clock moves on to    *)
(* its callback.  ThrottledTick is the only step of NextLive that moves    *)
(* the clock, so fairness for this step is fairness for ThrottledTick.     *)
TimerTick ==
  /\ playing
  /\ now + ThrottledDelay <= MaxRecTime
  /\ NothingDueBefore(now + ThrottledDelay)
  /\ now' = now + ThrottledDelay

SpecLive ==
  /\ Init /\ [][NextLive]_vars
  /\ WF_now(TimerTick) /\ WF_vars(CountInFire)

(* the clock leaves room for the ticks up to the next bar boundary *)
BarAhead == now + getBarDuration(currentPattern, tempo) <= MaxRecTime

(* C36: a recorder that is counting in on request r, with the scheduler    *)
(* running and ticking, becomes 'recording' unless stopRecording() or      *)
(* clear() is called first; it does not stay 'counting-in' forever.        *)
C36_CountInLeadsToRecording ==
  \A r \in 1..(MaxRequests + 1) :
    (state = "counting-in" /\ r \in outstanding /\ BarAhead)
      ~> (state = "recording" \/ r \in history.cancelled \/ history.cleared)

(* a recording that a count-in started, which nobody cancelled *)
C36_Witness ==
  /\ state = "recording" /\ mediaRecorder # 0
  /\ history.cancelled = {} /\ ~history.cleared
  /\ requests.invoked # <<>>

(* ---- one scheduler pass ---- *)

(* C37: a scheduler pass dispatches exactly the steps that fit in the      *)
(* look-ahead window: every dispatched step is due before now + lookahead, *)
(* afterwards nextStepTime is at or beyond now + lookahead, the steps are  *)
(* one step duration apart starting at the old nextStepTime, and their     *)
(* indices are consecutive modulo the pattern's step count, starting at    *)
(* the old step index, however late the pass runs.                         *)
C37_PassFillsLookAhead ==
  [][ SchedulerPass =>
        LET pass == PassOf
            n == Len(pass)
            d == getStepDuration(tempo)
            steps == getPatternSteps(currentPattern)
        IN /\ \A i \in 1..n :
                /\ pass[i].time < now' + SCHEDULE_AHEAD
                /\ pass[i].time = nextStepTime + (i - 1) * d
                /\ pass[i].step = (currentStep + i - 1) % steps
           /\ nextStepTime' = nextStepTime + n * d
           /\ nextStepTime' >= now' + SCHEDULE_AHEAD
           /\ currentStep' = (currentStep + n) % steps ]_vars

(* a late pass that caught up several steps across the end of the pattern *)
C37_Witness ==
  \E i \in 2..Len(dispatched.pass) :
    /\ dispatched.pass[i].step = 0
    /\ dispatched.pass[i - 1].step = getPatternSteps(currentPattern) - 1
    /\ i < Len(dispatched.pass)

(* ======================= Notes through the MIDI export ================ *)

(* the data of logEvent('note', ...) calls over the ranges of a MIDI note: *)
(* the strings log Math.round(velocity * 127), which is 0 for a volume of  *)
(* 0                                                                       *)
NoteInputs ==
  { [type |-> "note", channel |-> c, midi |-> <<m>>, velocity |-> <<v>>] :
      c \in {1, 16}, m \in {0, 127}, v \in {0, 64, 127} }
NoteTimes == {0, 900}

NoteLogs ==
  { log \in UNION { [1..k -> { LoggedEvent(t, data) :
                                 t \in NoteTimes, data \in NoteInputs }] :
                    k \in 1..MaxNotes } :
      \A i \in 1..(Len(log) - 1) : log[i].time <= log[i + 1].time }

InitNotes == \E log \in NoteLogs : AfterRecording(log, <<>>)

NextNotes == ExportMIDI \/ SetTempo

SpecNotes == InitNotes /\ [][NextNotes]_vars

(* C38: in the file exportMIDI() offers, every event with a channel in     *)
(* 1..16, a note in 0..127 and a velocity in 0..127 has a Note-On with     *)
(* status 0x90 + (channel - 1), its note and its velocity, followed at     *)
(* once by a Note-Off of the same channel and note with velocity 0,        *)
(* round(200 / msPerTick) ticks later.                                     *)
C38_NotesRoundTrip ==
  [][ MidiOffered =>
        LET evs == trackEvents(download'[1].bytes, 23, 0)
            notes == sortByTime(flatEvents(layers))
        IN /\ Len(evs) = 2 * Len(notes)
           /\ \A k \in 1..Len(notes) :
                LET on == evs[2 * k - 1]
                    off == evs[2 * k]
                    evt == notes[k]
                IN /\ on.status = 144 + (evt.channel - 1)
                   /\ on.data1 = evt.midi[1]
                   /\ on.data2 = evt.velocity[1]
                   /\ off.status = 128 + (evt.channel - 1)
                   /\ off.data1 = evt.midi[1]
                   /\ off.data2 = 0
                   /\ off.tick - on.tick
                        = Round(200 * tempo * ticksPerBeat, 60000) ]_vars

(* the same with the velocity an event of velocity 0 is written with       *)
C38_NotesRoundTripButSilent ==
  [][ MidiOffered =>
        LET evs == trackEvents(download'[1].bytes, 23, 0)
            notes == sortByTime(flatEvents(layers))
        IN /\ Len(evs) = 2 * Len(notes)
           /\ \A k \in 1..Len(notes) :
                LET on == evs[2 * k - 1]
                    off == evs[2 * k]
                    evt == notes[k]
                IN /\ on.status = 144 + (evt.channel - 1)
                   /\ on.data1 = evt.midi[1]
                   /\ on.data2 = (IF evt.velocity[1] = 0 THEN 64
                                  ELSE evt.velocity[1])
                   /\ off.status = 128 + (evt.channel - 1)
                   /\ off.data1 = evt.midi[1]
                   /\ off.data2 = 0
                   /\ off.tick - on.tick
                        = Round(200 * tempo * ticksPerBeat, 60000) ]_vars

C38_Witness ==
  /\ download # <<>>
  /\ download[1].filename = "omnichord-loop.mid"
  /\ \E i \in 1..Len(layers) : \E j \in 1..Len(layers[i].events) :
       layers[i].events[j].velocity = <<0>>

(* ======================= Delta-times of every length =================== *)

(* event times whose ticks at the three tempi lie on both sides of the     *)
(* values at which the encoding gains a byte (2^7, 2^14, 2^21) and reach    *)
(* 2^28 - 1                                                                 *)
VarLenTimes ==
  {0, 1, 79, 80, 132, 133, 265, 267, 10239, 10240, 17066, 17067, 34133,
   34134, 1310719, 1310720, 2184532, 2184533, 4369066, 4369067,
   167772159, 279620266}

InitVarLen ==
  \E t \in VarLenTimes :
    AfterRecording(<< LoggedEvent(t, [type |-> "note", channel |-> 1,
                                      midi |-> <<60>>, velocity |-> <<100>>]) >>,
                   <<>>)

NextVarLen == ExportMIDI \/ SetTempo

SpecVarLen == InitVarLen /\ [][NextVarLen]_vars

(* the position of the first delta-time: after the 14-byte header, the     *)
(* 8-byte track header and the 7 bytes of the tempo event                   *)
FirstDeltaAt == 14 + 8 + 7 + 1

(* C39: a delta-time below 2^28 is written in 1 to 4 bytes, seven bits a   *)
(* byte with the most significant group first, the continuation bit set on  *)
(* every byte but the last, and reads back as the same delta; the delta 0   *)
(* is the single byte 00.                                                   *)
C39_VarLenRoundTrips ==
  [][ MidiOffered =>
        LET bytes == download'[1].bytes
            delta == ticksOf(flatEvents(layers)[1].time, tempo)
            read == readVarLen(bytes, FirstDeltaAt, 0)
            n == read.next - FirstDeltaAt
        IN delta < 2^28 =>
             /\ n \in 1..4
             /\ read.value = delta
             /\ \A i \in 0..(n - 1) :
                  /\ bytes[FirstDeltaAt + i] % 128
                       = (delta \div (128 ^ (n - 1 - i))) % 128
                  /\ (bytes[FirstDeltaAt + i] >= 128) = (i < n - 1)
             /\ delta < 128 ^ n
             /\ bytes[FirstDeltaAt + n] = 144
             /\ (delta = 0 => (n = 1 /\ bytes[FirstDeltaAt] = 0)) ]_vars

C39_Witness ==
  /\ download # <<>>
  /\ download[1].filename = "omnichord-loop.mid"
  /\ \A i \in 0..2 : download[1].bytes[FirstDeltaAt + i] >= 128
  /\ download[1].bytes[FirstDeltaAt + 3] < 128
  /\ ticksOf(flatEvents(layers)[1].time, tempo) = 2^28 - 1

(* ======================= Bars and passes through a pattern ============= *)

(* every catalog name and one that is not in the catalog; every tempo the  *)
(* clamp lets through and one beyond each end                               *)
CatalogInputs == PatternNames \cup {"polka"}
TempoInputs == (MIN_TEMPO - 1)..(MAX_TEMPO + 1)

SetAnyTempo == \E bpm \in TempoInputs : setTempo(bpm)
SetAnyPattern == \E name \in CatalogInputs : setPattern(name)

NextBars == SetAnyTempo \/ SetAnyPattern

SpecBars == Init /\ [][NextBars]_vars

(* a / b = c / d for positive denominators *)
SameQuotient(x, y) == x.num * y.den = y.num * x.den
Times(k, x) == [num |-> k * x.num, den |-> x.den]

(* the loop lengths of the control, in bars *)
LoopBars == {1, 2, 4}

(* C40: at every tempo and for every pattern of the catalog one bar is one *)
(* pass through the pattern: getBarDuration() is getPatternSteps() step     *)
(* durations (rock at 120: a step of 125 ms and a bar of 2000 ms; the       *)
(* 12-step 3/4 pattern has 3 beats), every voice has one bit per step, and  *)
(* a loop of N bars is N * stepCount steps long.                            *)
C40_BarIsOnePass ==
  LET p == PATTERNS[currentPattern]
      steps == getPatternSteps(currentPattern)
      step == getStepDurationSeconds(tempo)
      bar == getBarDurationSeconds(currentPattern, tempo)
  IN /\ SameQuotient(bar, Times(steps, step))
     /\ 15000 % tempo = 0 =>
          getBarDuration(currentPattern, tempo) = steps * getStepDuration(tempo)
     /\ (currentPattern = "rock" /\ tempo = 120) =>
          (getStepDuration(tempo) = 125 /\ getBarDuration("rock", tempo) = 2000)
     /\ steps = 12 => (p.timeSignature = "3/4" /\ getBeatsPerBar(currentPattern) = 3)
     /\ \A voice \in Voices : Len(p[voice]) = steps
     /\ \A n \in LoopBars : SameQuotient(Times(n, bar), Times(n * steps, step))

C40_Witness ==
  /\ currentPattern = "waltz"
  /\ tempo = 77
  /\ getBeatsPerBar(currentPattern) = 3

====
